---- MODULE Spec2Model ----
(***************************************************************************)
(* Model of create_sankey_data (src/generate_sankey_data.py): the builder   *)
(* of the Sankey node grid and of the links between the teams of           *)
(* consecutive years.                                                      *)
(*                                                                         *)
(* Representation.  A Python str is a sequence of one-character strings,   *)
(* so that formatting (f-strings, str.join) and parsing (str.split) are    *)
(* computed character by character.  A dict is its item list in insertion  *)
(* order when the code iterates it (a year's teams) and a function on its  *)
(* key set when the code only looks keys up or sorts them (teams_data,     *)
(* year_to_nodes).  A link's value is the rational num/den, so that the    *)
(* literal 0.5 is [num |-> 1, den |-> 2] and len(shared_players) = n is    *)
(* [num |-> n, den |-> 1].  List positions are 0-based as in the code;     *)
(* At(s, k) reads s[k].  A character outside ASCII is written as its code   *)
(* point ("U+041A").                                                       *)
(***************************************************************************)
EXTENDS Integers, Sequences, FiniteSets

VARIABLES teams_data, pc, nodes, links, node_id, year_to_nodes, max_teams,
          year_idx, i, j

vars == <<teams_data, pc, nodes, links, node_id, year_to_nodes, max_teams,
          year_idx, i, j>>

\* ------------------------------------------------------------------ bounds

\* The largest number of teams of one year in an input.
MaxTeams == 2

\* The largest number of teams of all the years of an input.
MaxTotalTeams == 4

\* ----------------------------------------------------------------- strings

NL == "\n"

\* ord(c) for the characters of the year labels; labels are compared by it.
CodePoint(c) ==
  CASE c = NL  -> 10
    [] c = "0" -> 48
    [] c = "1" -> 49
    [] c = "2" -> 50
    [] c = "3" -> 51
    [] c = "4" -> 52
    [] c = "5" -> 53
    [] c = "6" -> 54
    [] c = "7" -> 55
    [] c = "8" -> 56
    [] c = "9" -> 57
    [] c = "_" -> 95

At(s, k) == s[k + 1]

RECURSIVE StrLess(_, _)
\* s < t for two str: the first differing character decides, and a proper
\* prefix is smaller.
StrLess(s, t) ==
  IF t = <<>> THEN FALSE
  ELSE IF s = <<>> THEN TRUE
  ELSE IF Head(s) # Head(t) THEN CodePoint(Head(s)) < CodePoint(Head(t))
  ELSE StrLess(Tail(s), Tail(t))

RECURSIVE Join(_, _)
\* sep.join(parts)
Join(sep, parts) ==
  IF parts = <<>> THEN <<>>
  ELSE IF Len(parts) = 1 THEN parts[1]
  ELSE parts[1] \o sep \o Join(sep, Tail(parts))

RECURSIVE Split(_, _)
\* s.split(c) for a one-character separator c: "" splits to [""].
Split(s, c) ==
  IF \A k \in 1..Len(s) : s[k] # c THEN <<s>>
  ELSE LET p == CHOOSE k \in 1..Len(s) :
                  s[k] = c /\ \A m \in 1..(k - 1) : s[m] # c
       IN  <<SubSeq(s, 1, p - 1)>> \o Split(SubSeq(s, p + 1, Len(s)), c)

Range(s) == {s[k] : k \in 1..Len(s)}

Digit(d) ==
  CASE d = 0 -> "0" [] d = 1 -> "1" [] d = 2 -> "2" [] d = 3 -> "3"
    [] d = 4 -> "4" [] d = 5 -> "5" [] d = 6 -> "6" [] d = 7 -> "7"
    [] d = 8 -> "8" [] d = 9 -> "9"

RECURSIVE DecStr(_)
\* str(n) for n >= 0, as the f-string formats {i+1}.
DecStr(n) == IF n < 10 THEN <<Digit(n)>> ELSE DecStr(n \div 10) \o <<Digit(n % 10)>>

\* All the orders in which a set can be iterated.
Orderings(S) ==
  {s \in [1..Cardinality(S) -> S] : \A a, b \in 1..Cardinality(S) : s[a] = s[b] => a = b}

Max(S) == CHOOSE m \in S : \A x \in S : x <= m

RECURSIVE SortedDesc(_)
\* sorted(S, reverse=True) for a set of distinct str.
SortedDesc(S) ==
  IF S = {} THEN <<>>
  ELSE LET top == CHOOSE x \in S : \A y \in S \ {x} : StrLess(y, x)
       IN  <<top>> \o SortedDesc(S \ {top})

\* ------------------------------------------------------------------ inputs

\* teams_data is a dict year label -> (dict team name -> list of player
\* names).  An input gives each of its years up to MaxTeams teams, named in
\* the order of `names` (the insertion order of the year's dict) and each
\* with a roster of `rosters`, and holds at most MaxTotalTeams teams.
TeamDicts(names, rosters) ==
  UNION { { [k \in 1..r |-> [team_name |-> names[k], players |-> f[k]]] :
              f \in [1..r -> rosters] } :
          r \in 0..(IF MaxTeams < Len(names) THEN MaxTeams ELSE Len(names)) }

RECURSIVE TotalTeams(_, _)
TotalTeams(d, Y) ==
  IF Y = {} THEN 0
  ELSE LET y == CHOOSE x \in Y : TRUE
       IN  Len(d[y]) + TotalTeams(d, Y \ {y})

Inputs(labels, names, rosters) ==
  { d \in UNION { [Y -> TeamDicts(names, rosters)] : Y \in SUBSET labels } :
      TotalTeams(d, DOMAIN d) <= MaxTotalTeams }

YearLabels == { <<"2", "0", "2", "3">>, <<"2", "0", "2", "2">>, <<"9", "9", "9">> }

TeamNames == << <<"A">>, <<"B">>, <<"C">>, <<"D">> >>

Rosters == { << <<"X">>, <<"Y">> >>, << <<"Z">> >>, << <<"X">> >> }

\* Year labels and team names that hold the "_" of the node name format.
KeyYearLabels == { <<"1">>, <<"1", "_", "2">> }

KeyTeamNames == << <<"2", "_", "3">>, <<"3">>, <<"4">>, <<"5">> >>

KeyRosters == { << <<"X">> >> }

\* Rosters with a player name that holds the "\n" of the roster format.
TextYearLabels == { <<"2", "0", "2", "3">>, <<"2", "0", "2", "2">> }

TextRosters == { << <<"a", NL, "b">> >>, << <<"a">> >>, << <<"c">> >> }

\* ------------------------------------------------------------ the function

Years == DOMAIN teams_data

\* sorted(teams_data.keys(), reverse=True)
sorted_years == SortedDesc(Years)

\* teams_per_year = {year: len(teams) ...}
teams_per_year == [year \in Years |-> Len(teams_data[year])]

\* Mutant of MaxRaises: max(..., default=0) never raises.
MaxNeverRaises == FALSE

\* max() of an empty sequence raises ValueError.
MaxRaises == Years = {}

\* max(teams_per_year.values())
MaxTeamsOf == IF Years = {} THEN 0 ELSE Max({teams_per_year[year] : year \in Years})

\* "\n".join(players)
RosterText(players) == Join(<<NL>>, players)

\* Mutant of Color: the modulus is one too large.
ColorOffByOne(id) == id % (max_teams + 1)

\* node_id % max_teams
Color(id) == id % max_teams

\* f"{year}_{team_name}"
NodeName(year, team_name) == year \o <<"_">> \o team_name

RealNode(year, team, id) ==
  [name      |-> NodeName(year, team.team_name),
   real_name |-> team.team_name,
   team      |-> RosterText(team.players),
   year      |-> year,
   node      |-> id,
   color     |-> Color(id)]

DummyKey == <<"0", "0", "0", "0", "0", "0">>

\* Mutant of DummyName: the ordinal is the 0-based i.
DummyNameZeroBased(n) ==
  <<"U+041A", "U+043E", "U+043C", "U+0430", "U+043D", "U+0434", "U+0430", " ">>
    \o DecStr(n)

\* The dummy label f"<Komanda> {i+1}": the seven Cyrillic letters of the
\* literal, each written as its code point, a space and the ordinal.
DummyName(n) ==
  <<"U+041A", "U+043E", "U+043C", "U+0430", "U+043D", "U+0434", "U+0430", " ">>
    \o DecStr(n + 1)

\* Mutant of DummyNode: the dummy takes its ordinal in the year as its index.
DummyNodeLocalId(year, n, id) ==
  [name      |-> DummyKey,
   real_name |-> DummyName(n),
   team      |-> <<>>,
   year      |-> year,
   node      |-> n,
   color     |-> Color(id)]

DummyNode(year, n, id) ==
  [name      |-> DummyKey,
   real_name |-> DummyName(n),
   team      |-> <<>>,
   year      |-> year,
   node      |-> id,
   color     |-> Color(id)]

\* Mutant of DummyNodesNeeded: the difference is taken the wrong way round.
DummyNodesNeededNegated(year) == Len(teams_data[year]) - max_teams

\* dummy_nodes_needed = max_teams - current_teams
DummyNodesNeeded(year) == max_teams - Len(teams_data[year])

\* set(team["team"].split("\n"))
PlayerSet(text) == Range(Split(text, NL))

\* prev_players.intersection(curr_players)
SharedPlayers(prev_team, curr_team) ==
  PlayerSet(prev_team.team) \cap PlayerSet(curr_team.team)

\* Mutant of Link: source and target are exchanged.
LinkReversed(prev_team_id, curr_team_id, shared, order) ==
  [source |-> curr_team_id,
   target |-> prev_team_id,
   value  |-> [num |-> Cardinality(shared), den |-> 1],
   team   |-> Join(<<NL>>, order)]

\* Lines 169-174
Link(prev_team_id, curr_team_id, shared, order) ==
  [source |-> prev_team_id,
   target |-> curr_team_id,
   value  |-> [num |-> Cardinality(shared), den |-> 1],
   team   |-> Join(<<NL>>, order)]

DummyValue == [num |-> 1, den |-> 2]

DummyLink(source_id, target_id) ==
  [source |-> source_id,
   target |-> target_id,
   value  |-> DummyValue,
   team   |-> <<>>]

InitFrom(inputs) ==
  /\ teams_data \in inputs
  /\ pc = "start"
  /\ nodes = <<>>
  /\ links = <<>>
  /\ node_id = 0
  /\ year_to_nodes = [year \in DOMAIN teams_data |-> <<>>]
  /\ max_teams = 0
  /\ year_idx = 0
  /\ i = 0
  /\ j = 0

Init == InitFrom(Inputs(YearLabels, TeamNames, Rosters))

InitKeys == InitFrom(Inputs(KeyYearLabels, KeyTeamNames, KeyRosters))

InitText == InitFrom(Inputs(TextYearLabels, TeamNames, TextRosters))

\* Lines 102-103 on an input with no year: max() raises before a node exists.
RaiseEmpty ==
  /\ pc = "start"
  /\ MaxRaises
  /\ pc' = "error"
  /\ UNCHANGED <<teams_data, nodes, links, node_id, year_to_nodes, max_teams,
                 year_idx, i, j>>

\* Lines 102-108: the team counts, their maximum, the first year of the loop.
Start ==
  /\ pc = "start"
  /\ ~MaxRaises
  /\ max_teams' = MaxTeamsOf
  /\ pc' = IF Len(sorted_years) > 0 THEN "real_teams" ELSE "links"
  /\ year_idx' = 0
  /\ i' = 0
  /\ UNCHANGED <<teams_data, nodes, links, node_id, year_to_nodes, j>>

\* Lines 114-125: one turn of the loop over the year's teams.
AddRealTeam ==
  /\ pc = "real_teams"
  /\ LET year  == At(sorted_years, year_idx)
         teams == teams_data[year]
     IN  /\ i < Len(teams)
         /\ nodes' = Append(nodes, RealNode(year, At(teams, i), node_id))
         /\ year_to_nodes' = [year_to_nodes EXCEPT ![year] = Append(@, node_id)]
  /\ node_id' = node_id + 1
  /\ i' = i + 1
  /\ UNCHANGED <<teams_data, pc, links, max_teams, year_idx, j>>

\* Line 128: the teams of the year are done, the dummies follow.
EndRealTeams ==
  /\ pc = "real_teams"
  /\ i >= Len(teams_data[At(sorted_years, year_idx)])
  /\ pc' = "dummy_teams"
  /\ i' = 0
  /\ UNCHANGED <<teams_data, nodes, links, node_id, year_to_nodes, max_teams,
                 year_idx, j>>

\* Lines 129-141: one turn of the loop over range(dummy_nodes_needed).
AddDummyTeam ==
  /\ pc = "dummy_teams"
  /\ LET year == At(sorted_years, year_idx)
     IN  /\ i < DummyNodesNeeded(year)
         /\ nodes' = Append(nodes, DummyNode(year, i, node_id))
         /\ year_to_nodes' = [year_to_nodes EXCEPT ![year] = Append(@, node_id)]
  /\ node_id' = node_id + 1
  /\ i' = i + 1
  /\ UNCHANGED <<teams_data, pc, links, max_teams, year_idx, j>>

\* Line 108: the next year of the loop, or lines 144-145 after the last one.
NextYear ==
  /\ pc = "dummy_teams"
  /\ i >= DummyNodesNeeded(At(sorted_years, year_idx))
  /\ IF year_idx + 1 < Len(sorted_years)
       THEN /\ pc' = "real_teams"
            /\ year_idx' = year_idx + 1
       ELSE /\ pc' = "links"
            /\ year_idx' = 0
  /\ i' = 0
  /\ j' = 0
  /\ UNCHANGED <<teams_data, nodes, links, node_id, year_to_nodes, max_teams>>

\* Lines 145-147: the newest year has no previous year.
SkipFirstYear ==
  /\ pc = "links"
  /\ year_idx < Len(sorted_years)
  /\ year_idx = 0
  /\ year_idx' = year_idx + 1
  /\ i' = 0
  /\ j' = 0
  /\ UNCHANGED <<teams_data, pc, nodes, links, node_id, year_to_nodes, max_teams>>

\* Lines 152-175: one turn of the inner loop, on the i-th node of prev_year
\* and the j-th node of year.  The shared players are joined in the order
\* the set iterates, which is any order.
CompareTeams ==
  /\ pc = "links"
  /\ year_idx < Len(sorted_years)
  /\ year_idx # 0
  /\ LET year         == At(sorted_years, year_idx)
         prev_year    == At(sorted_years, year_idx - 1)
     IN  /\ i < Len(year_to_nodes[prev_year])
         /\ j < Len(year_to_nodes[year])
         /\ LET prev_team_id == At(year_to_nodes[prev_year], i)
                curr_team_id == At(year_to_nodes[year], j)
                prev_team    == At(nodes, prev_team_id)
                curr_team    == At(nodes, curr_team_id)
                shared       == SharedPlayers(prev_team, curr_team)
            IN  IF prev_team.team = <<>> \/ curr_team.team = <<>>
                  THEN links' = links
                  ELSE IF shared # {}
                    THEN \E order \in Orderings(shared) :
                           links' = Append(links, Link(prev_team_id, curr_team_id, shared, order))
                    ELSE links' = links
         /\ IF j + 1 < Len(year_to_nodes[year])
              THEN /\ j' = j + 1
                   /\ i' = i
              ELSE /\ j' = 0
                   /\ i' = i + 1
  /\ UNCHANGED <<teams_data, pc, nodes, node_id, year_to_nodes, max_teams, year_idx>>

\* Line 145: the loops over the nodes of the two years are over.
NextLinkYear ==
  /\ pc = "links"
  /\ year_idx < Len(sorted_years)
  /\ year_idx # 0
  /\ ~ (/\ i < Len(year_to_nodes[At(sorted_years, year_idx - 1)])
        /\ j < Len(year_to_nodes[At(sorted_years, year_idx)]))
  /\ year_idx' = year_idx + 1
  /\ i' = 0
  /\ j' = 0
  /\ UNCHANGED <<teams_data, pc, nodes, links, node_id, year_to_nodes, max_teams>>

\* Line 178: the loop over the years is over, the dummy links follow.
EndLinks ==
  /\ pc = "links"
  /\ year_idx >= Len(sorted_years)
  /\ pc' = "dummy_links"
  /\ year_idx' = 0
  /\ i' = 0
  /\ j' = 0
  /\ UNCHANGED <<teams_data, nodes, links, node_id, year_to_nodes, max_teams>>

\* Mutant of GridRange: the last grid position is left out.
GridRangeShort == max_teams - 1

\* range(max_teams), the grid positions
GridRange == max_teams

\* Lines 183-194: one turn of the loop over the grid positions, pos = i.  A
\* position past the end of a year's list raises IndexError.
AddDummyLink ==
  /\ pc = "dummy_links"
  /\ year_idx < Len(sorted_years) - 1
  /\ i < GridRange
  /\ LET current_year == At(sorted_years, year_idx)
         next_year    == At(sorted_years, year_idx + 1)
     IN  IF i < Len(year_to_nodes[current_year]) /\ i < Len(year_to_nodes[next_year])
           THEN /\ links' = Append(links, DummyLink(At(year_to_nodes[current_year], i),
                                                    At(year_to_nodes[next_year], i)))
                /\ pc' = pc
           ELSE /\ links' = links
                /\ pc' = "error"
  /\ i' = i + 1
  /\ UNCHANGED <<teams_data, nodes, node_id, year_to_nodes, max_teams, year_idx, j>>

\* Line 178: the next pair of years.
NextGridYear ==
  /\ pc = "dummy_links"
  /\ year_idx < Len(sorted_years) - 1
  /\ i >= GridRange
  /\ year_idx' = year_idx + 1
  /\ i' = 0
  /\ UNCHANGED <<teams_data, pc, nodes, links, node_id, year_to_nodes, max_teams, j>>

\* Line 196: return {"nodes": nodes, "links": links}
Return ==
  /\ pc = "dummy_links"
  /\ year_idx >= Len(sorted_years) - 1
  /\ pc' = "done"
  /\ UNCHANGED <<teams_data, nodes, links, node_id, year_to_nodes, max_teams,
                 year_idx, i, j>>

Next ==
  \/ RaiseEmpty
  \/ Start
  \/ AddRealTeam
  \/ EndRealTeams
  \/ AddDummyTeam
  \/ NextYear
  \/ SkipFirstYear
  \/ CompareTeams
  \/ NextLinkYear
  \/ EndLinks
  \/ AddDummyLink
  \/ NextGridYear
  \/ Return

\* create_sankey_data on the inputs of ordinary labels, names and rosters.
Spec == Init /\ [][Next]_vars

\* create_sankey_data on labels and team names that hold "_".
SpecKeys == InitKeys /\ [][Next]_vars

\* create_sankey_data on player names that hold "\n".
SpecText == InitText /\ [][Next]_vars

\* --------------------------------------------------------------- properties

\* The largest real-team count over all the years of the input.
MaxTeamsPerYear ==
  IF Years = {} THEN 0
  ELSE CHOOSE m \in {Len(teams_data[y]) : y \in Years} :
         \A y \in Years : Len(teams_data[y]) <= m

\* The node pass is over.
NodesBuilt == pc \in {"links", "dummy_links", "done"}

Done == pc = "done"

NodesOfYear(y) == {k \in 1..Len(nodes) : nodes[k].year = y}

StructuralLinks == {k \in 1..Len(links) : links[k].value = DummyValue}

RealLinks == {k \in 1..Len(links) : links[k].value # DummyValue}

Ends(k) == {links[k].source, links[k].target}

\* The node at grid position p (0-based) of year y.
NodeAt(y, p) == At(nodes, At(year_to_nodes[y], p))

\* The node with index id is a placeholder: it stands in its year's list
\* past the year's real teams.
IsPlaceholder(id) ==
  LET y == At(nodes, id).year
  IN  \E p \in 0..(Len(year_to_nodes[y]) - 1) :
        At(year_to_nodes[y], p) = id /\ p >= Len(teams_data[y])

IsInteger(label) ==
  /\ label # <<>>
  /\ \A k \in 1..Len(label) : label[k] \in {"0", "1", "2", "3", "4", "5", "6", "7", "8", "9"}

RECURSIVE IntVal(_)
\* int(label)
IntVal(label) ==
  IF label = <<>> THEN 0
  ELSE 10 * IntVal(SubSeq(label, 1, Len(label) - 1)) + (CodePoint(label[Len(label)]) - 48)

\* The scenario of the specification:
\* {"2023": {"A": ["X","Y"], "B": ["Z"]}, "2022": {"A": ["X"]}}
Y2023 == <<"2", "0", "2", "3">>

Y2022 == <<"2", "0", "2", "2">>

Scenario ==
  [y \in {Y2023, Y2022} |->
     IF y = Y2023
       THEN << [team_name |-> <<"A">>, players |-> << <<"X">>, <<"Y">> >>],
               [team_name |-> <<"B">>, players |-> << <<"Z">> >>] >>
       ELSE << [team_name |-> <<"A">>, players |-> << <<"X">> >>] >>]

\* C1: once the nodes are built, every year of the input holds exactly
\* maxTeamsPerYear nodes (also a year with no team), and the node list holds
\* (number of years) x maxTeamsPerYear nodes.
NodeCountInvariant ==
  NodesBuilt =>
    /\ \A y \in Years : Cardinality(NodesOfYear(y)) = MaxTeamsPerYear
    /\ Len(nodes) = Cardinality(Years) * MaxTeamsPerYear

NodeCountWitness ==
  /\ Done
  /\ Cardinality(Years) = 3
  /\ MaxTeamsPerYear = 2
  /\ \E y \in Years : teams_data[y] = <<>> /\ Cardinality(NodesOfYear(y)) = 2

\* C2: the node at position k of the node list has index k (the counter is
\* never reset), so the indices are exactly 0..totalNodes-1 without
\* duplicates, and the source and target of every link are positions of the
\* node list.
IndexContiguous ==
  /\ \A k \in 1..Len(nodes) : nodes[k].node = k - 1
  /\ {nodes[k].node : k \in 1..Len(nodes)} = 0..(Len(nodes) - 1)
  /\ \A y \in Years : \A p \in 1..Len(year_to_nodes[y]) :
       year_to_nodes[y][p] \in 0..(Len(nodes) - 1)
  /\ \A k \in 1..Len(links) :
       /\ links[k].source \in 0..(Len(nodes) - 1)
       /\ links[k].target \in 0..(Len(nodes) - 1)

IndexWitness ==
  /\ Done
  /\ Cardinality(Years) = 3
  /\ Len(nodes) = 6
  /\ RealLinks # {}
  /\ \E k \in 1..Len(nodes) : nodes[k].name = DummyKey /\ nodes[k].node >= 4

\* C4: between the two years of every consecutive pair and for every grid
\* position there is exactly one link of weight 0.5, with an empty text,
\* whatever the two nodes are; the structural links number
\* (years - 1) x maxTeamsPerYear, and a single year has no link at all.
StructuralLinkCompleteness ==
  Done =>
    /\ \A idx \in 0..(Len(sorted_years) - 2) : \A p \in 0..(MaxTeamsPerYear - 1) :
         LET a == At(year_to_nodes[At(sorted_years, idx)], p)
             b == At(year_to_nodes[At(sorted_years, idx + 1)], p)
         IN  /\ Cardinality({k \in StructuralLinks : Ends(k) = {a, b}}) = 1
             /\ \A k \in StructuralLinks : Ends(k) = {a, b} => links[k].team = <<>>
    /\ Cardinality(StructuralLinks) = (Cardinality(Years) - 1) * MaxTeamsPerYear
    /\ Cardinality(Years) = 1 => links = <<>>

StructuralLinkWitness ==
  /\ Done
  /\ Cardinality(Years) = 3
  /\ \E k \in StructuralLinks : \E r \in RealLinks : Ends(k) = Ends(r)
  /\ \E k \in StructuralLinks :
       IsPlaceholder(links[k].source) /\ IsPlaceholder(links[k].target)
  /\ \E k \in StructuralLinks :
       IsPlaceholder(links[k].source) # IsPlaceholder(links[k].target)

\* C8: in every year's list of node indices the year's r real teams stand
\* first, in the insertion order of the year's teams, and maxTeamsPerYear - r
\* placeholders follow, labelled with the ordinals 1, 2, ... of that year,
\* each with an empty roster text and the year's label.
YearLayout ==
  NodesBuilt =>
    \A y \in Years :
      /\ Len(year_to_nodes[y]) = MaxTeamsPerYear
      /\ \A p \in 0..(Len(year_to_nodes[y]) - 1) :
           LET n == NodeAt(y, p)
               r == Len(teams_data[y])
           IN  /\ n.year = y
               /\ p < r =>
                    /\ n.real_name = At(teams_data[y], p).team_name
                    /\ n.name # DummyKey
               /\ p >= r =>
                    /\ n.name = DummyKey
                    /\ n.team = <<>>
                    /\ n.real_name =
                         <<"U+041A", "U+043E", "U+043C", "U+0430", "U+043D", "U+0434",
                           "U+0430", " ", Digit(p - r + 1)>>

YearLayoutWitness ==
  /\ Done
  /\ \E y \in Years : teams_data[y] = <<>> /\ Len(year_to_nodes[y]) = 2
  /\ \E y \in Years : Len(teams_data[y]) = 2
  /\ \E y \in Years : Len(teams_data[y]) = 1 /\ NodeAt(y, 1).name = DummyKey

\* C10: a node's color is its grid position in its year's list and its index
\* div maxTeamsPerYear is its year's column in the processing order; so a
\* structural link joins two nodes of one color with target = source +
\* maxTeamsPerYear, and every link goes from a column to the next one.
ColorGrid ==
  NodesBuilt =>
    /\ \A idx \in 0..(Len(sorted_years) - 1) :
         \A p \in 0..(Len(year_to_nodes[At(sorted_years, idx)]) - 1) :
           LET n == NodeAt(At(sorted_years, idx), p)
           IN  /\ n.color = p
               /\ n.color = n.node % MaxTeamsPerYear
               /\ n.node \div MaxTeamsPerYear = idx
    /\ \A k \in StructuralLinks :
         /\ links[k].target = links[k].source + MaxTeamsPerYear
         /\ At(nodes, links[k].source).color = At(nodes, links[k].target).color
    /\ \A k \in 1..Len(links) :
         links[k].target \div MaxTeamsPerYear = (links[k].source \div MaxTeamsPerYear) + 1

ColorGridWitness ==
  /\ Done
  /\ Cardinality(Years) = 3
  /\ MaxTeamsPerYear = 2
  /\ \E k \in RealLinks :
       /\ At(nodes, links[k].source).color # At(nodes, links[k].target).color
       /\ links[k].source \div MaxTeamsPerYear = 1

YearOf(id) == At(nodes, id).year

\* C5, as stated: every real link goes from the chronologically earlier year
\* to the later one, and the scenario's only real link goes from 2022:A to
\* 2023:A with weight 1, among 3 links.
RealLinksEarlierToLater ==
  Done =>
    /\ \A k \in RealLinks : IntVal(YearOf(links[k].source)) < IntVal(YearOf(links[k].target))
    /\ teams_data = Scenario =>
         /\ Len(links) = 3
         /\ \E k \in RealLinks :
              /\ RealLinks = {k}
              /\ links[k].source = NodeAt(Y2022, 0).node
              /\ links[k].target = NodeAt(Y2023, 0).node
              /\ links[k].value = [num |-> 1, den |-> 1]

\* C5, amended: every real link goes from a year to the year processed right
\* after it, that is to the next smaller label in the descending order of the
\* labels, hence from the later year to the earlier one when the two labels
\* have the same number of digits; the scenario's only real link goes from
\* 2023:A to 2022:A with weight 1, among 3 links.
RealLinksNewerToOlder ==
  Done =>
    /\ \A k \in RealLinks :
         LET s == YearOf(links[k].source)
             t == YearOf(links[k].target)
         IN  /\ StrLess(t, s)
             /\ ~ \E y \in Years : StrLess(t, y) /\ StrLess(y, s)
             /\ Len(s) = Len(t) => IntVal(t) < IntVal(s)
    /\ teams_data = Scenario =>
         /\ Len(links) = 3
         /\ \E k \in RealLinks :
              /\ RealLinks = {k}
              /\ links[k].source = NodeAt(Y2023, 0).node
              /\ links[k].target = NodeAt(Y2022, 0).node
              /\ links[k].value = [num |-> 1, den |-> 1]

RealLinkDirectionWitness ==
  /\ Done
  /\ teams_data = Scenario
  /\ RealLinks # {}

\* C6, as stated: when the labels are integers the years are processed in
\* descending order of their integer values, in the node pass and in both
\* link passes, so that no year lies between the two years of a link.
YearsIntegerDescending ==
  (\A y \in Years : IsInteger(y)) =>
    /\ \A k, l \in 1..Len(nodes) :
         k < l => IntVal(nodes[k].year) >= IntVal(nodes[l].year)
    /\ \A k \in 1..Len(links) :
         LET s == IntVal(YearOf(links[k].source))
             t == IntVal(YearOf(links[k].target))
         IN  ~ \E y \in Years : (s < IntVal(y) /\ IntVal(y) < t) \/ (t < IntVal(y) /\ IntVal(y) < s)

\* No year of the input has a team (also: the input has no year).
NoTeams == \A y \in Years : teams_data[y] = <<>>

\* C7, as stated: an input with no year, or whose year mappings are empty,
\* fails before a node is built and returns nothing.
EmptyInputFails ==
  NoTeams =>
    /\ pc \in {"start", "error"}
    /\ nodes = <<>>
    /\ links = <<>>

\* C7, amended: an input with no year fails before a node is built and returns
\* nothing, and nothing else fails; an input whose years are all empty does
\* not fail and returns an empty node list and an empty link list.
EmptyYearsFail ==
  /\ Years = {} =>
       /\ pc \in {"start", "error"}
       /\ nodes = <<>>
       /\ links = <<>>
  /\ Years # {} => pc # "error"
  /\ (Years # {} /\ NoTeams /\ Done) => (nodes = <<>> /\ links = <<>>)

EmptyYearsWitness ==
  /\ pc = "error"
  /\ Years = {}
  /\ nodes = <<>>

\* The player names two rosters have in common.
CommonNames(P, C) == Range(P.players) \cap Range(C.players)

\* C3, as stated: the real links are exactly one link per pair of real teams of
\* two consecutive years whose rosters have a player name in common, weighted
\* by the number of common names, and no other link.
RealLinksExact ==
  Done =>
    /\ \A idx \in 0..(Len(sorted_years) - 2) :
         LET prev == At(sorted_years, idx)
             curr == At(sorted_years, idx + 1)
         IN  \A p \in 0..(Len(teams_data[prev]) - 1) :
               \A c \in 0..(Len(teams_data[curr]) - 1) :
                 LET common == CommonNames(At(teams_data[prev], p), At(teams_data[curr], c))
                     joining == {k \in RealLinks :
                                   Ends(k) = {NodeAt(prev, p).node, NodeAt(curr, c).node}}
                 IN  /\ Cardinality(joining) = IF common # {} THEN 1 ELSE 0
                     /\ \A k \in joining :
                          links[k].value = [num |-> Cardinality(common), den |-> 1]
    /\ \A k \in RealLinks :
         /\ ~ IsPlaceholder(links[k].source)
         /\ ~ IsPlaceholder(links[k].target)
         /\ \E idx \in 0..(Len(sorted_years) - 2) :
              {YearOf(links[k].source), YearOf(links[k].target)}
                = {At(sorted_years, idx), At(sorted_years, idx + 1)}

\* C9, as stated: two different real-team nodes never have the same name
\* (displayKey), and no real-team node has the name of the placeholders.
DisplayKeyUnique ==
  \A k, l \in 1..Len(nodes) :
    /\ (k # l /\ nodes[k].name = nodes[l].name) =>
         (IsPlaceholder(nodes[k].node) /\ IsPlaceholder(nodes[l].node))
    /\ ~ IsPlaceholder(nodes[k].node) => nodes[k].name # DummyKey

====
